---- MODULE Spec2Model ----
(***************************************************************************)
(* Model of simulador.py: fixed-partition Best-Fit memory allocation and   *)
(* preemptive SRTF scheduling, advanced one step of Simulator.run at a     *)
(* time.  Processes are referred to by their index in loaded_processes,    *)
(* partitions by their index in the partition list; 0 stands for None.     *)
(***************************************************************************)
EXTENDS Integers, Sequences, FiniteSets, TLC

\* ---------------------------------------------------------------- bounds
\* inputs of a run: how many processes are loaded, their sizes, arrival and
\* burst times (the loader accepts a burst of 0), the partition sizes
ProcessCounts == 1..3
Sizes == 1..2
ArrivalTimes == 0..1
BurstTimes == 0..2
MaxParts == 2
MaxDegree == 2
MaxClock == 7
\* inputs of the direct calls of MemoryManager
CallProcessCounts == 1..2
CallParts == 3
CallSize == 3

\* ------------------------------------------------------- program constants
None == 0
Unset == -1
max_ticks == 1000

VARIABLES procs, partitions, all_processes, ready_queue, suspended_queue,
          terminated_queue, current_process, clock,
          degree_of_multiprogramming, total_processes, pc, ret

vars == <<procs, partitions, all_processes, ready_queue, suspended_queue,
          terminated_queue, current_process, clock,
          degree_of_multiprogramming, total_processes, pc, ret>>

\* ------------------------------------------------------------ list helpers
Contains(q, x) == \E i \in 1..Len(q) : q[i] = x

Range(q) == {q[i] : i \in 1..Len(q)}

\* list.remove(x): drops the first occurrence of x
Remove(q, x) ==
    IF ~Contains(q, x) THEN q
    ELSE LET i == CHOOSE j \in 1..Len(q) :
                      q[j] = x /\ \A h \in 1..(j - 1) : q[h] # x
         IN  SubSeq(q, 1, i - 1) \o SubSeq(q, i + 1, Len(q))

\* ------------------------------------------------------------------ models
Process(id, size, arrival_time, burst_time) ==
    [id |-> id, size |-> size, arrival_time |-> arrival_time,
     burst_time |-> burst_time, state |-> "New",
     remaining_time |-> burst_time, partition |-> None,
     wait_time |-> 0, finish_time |-> 0, turnaround_time |-> 0,
     first_execution_time |-> Unset]

Partition(id, size) ==
    [id |-> id, size |-> size, process |-> None,
     internal_fragmentation |-> 0]

calculate_statistics(p) ==
    LET t == p.finish_time - p.arrival_time
    IN  [p EXCEPT !.turnaround_time = t,
                  !.wait_time = IF p.first_execution_time # Unset
                                THEN p.first_execution_time - p.arrival_time
                                ELSE t - p.burst_time]

is_free(part) == part.process = None

\* M is the memory image [procs, parts]; k a partition index, p a process
assign_process(M, k, p) ==
    IF ~is_free(M.parts[k]) THEN M
    ELSE IF M.parts[k].size < M.procs[p].size THEN M
    ELSE [procs |-> [M.procs EXCEPT ![p].partition = k],
          parts |-> [M.parts EXCEPT
                       ![k].process = p,
                       ![k].internal_fragmentation =
                           M.parts[k].size - M.procs[p].size]]

\* variant: the fragmentation of the freed partition is left as it was
free_keeps_fragmentation(M, k) ==
    IF is_free(M.parts[k]) THEN M
    ELSE [procs |-> [M.procs EXCEPT ![M.parts[k].process].partition = None],
          parts |-> [M.parts EXCEPT ![k].process = None]]

free(M, k) ==
    IF is_free(M.parts[k]) THEN M
    ELSE [procs |-> [M.procs EXCEPT ![M.parts[k].process].partition = None],
          parts |-> [M.parts EXCEPT ![k].process = None,
                                    ![k].internal_fragmentation = 0]]

\* ----------------------------------------------------------- MemoryManager
RECURSIVE best_fit_loop(_, _, _, _, _)
best_fit_loop(parts, size, i, best_partition, min_fragmentation) ==
    IF i > Len(parts) THEN best_partition
    ELSE IF is_free(parts[i]) /\ parts[i].size >= size
              /\ (best_partition = None
                  \/ parts[i].size - size < min_fragmentation)
         THEN best_fit_loop(parts, size, i + 1, i, parts[i].size - size)
         ELSE best_fit_loop(parts, size, i + 1, best_partition,
                            min_fragmentation)

\* variant: first fit, the first free partition that is large enough
find_first_fit(M, p) ==
    IF \E k \in 1..Len(M.parts) :
          is_free(M.parts[k]) /\ M.parts[k].size >= M.procs[p].size
    THEN CHOOSE k \in 1..Len(M.parts) :
            /\ is_free(M.parts[k]) /\ M.parts[k].size >= M.procs[p].size
            /\ \A j \in 1..(k - 1) :
                  ~(is_free(M.parts[j])
                      /\ M.parts[j].size >= M.procs[p].size)
    ELSE None

\* variant: best fit over all the partitions, the occupied ones included
find_best_fit_occupied_too(M, p) ==
    IF \E k \in 1..Len(M.parts) : M.parts[k].size >= M.procs[p].size
    THEN CHOOSE k \in 1..Len(M.parts) :
            /\ M.parts[k].size >= M.procs[p].size
            /\ \A j \in 1..Len(M.parts) :
                  M.parts[j].size >= M.procs[p].size =>
                     /\ M.parts[k].size <= M.parts[j].size
                     /\ M.parts[k].size = M.parts[j].size => k <= j
    ELSE None

\* variant: the first free partition, whatever its size
find_best_fit_any_size(M, p) ==
    IF \E k \in 1..Len(M.parts) : is_free(M.parts[k])
    THEN CHOOSE k \in 1..Len(M.parts) :
            /\ is_free(M.parts[k])
            /\ \A j \in 1..(k - 1) : ~is_free(M.parts[j])
    ELSE None

find_best_fit(M, p) == best_fit_loop(M.parts, M.procs[p].size, 1, None, 0)

\* variant: a failed allocation marks the process Suspended
allocate_process_suspends_on_failure(M, p) ==
    LET k == find_best_fit(M, p)
    IN  IF k = None
        THEN [ok |-> FALSE, M |-> [M EXCEPT !.procs[p].state = "Suspended"]]
        ELSE LET M2 == assign_process(M, k, p)
             IN  [ok |-> TRUE,
                  M |-> [M2 EXCEPT !.procs[p].state = "Ready"]]

allocate_process(M, p) ==
    LET k == find_best_fit(M, p)
    IN  IF k = None THEN [ok |-> FALSE, M |-> M]
        ELSE LET old == M.parts[k].process
                 M1 == IF ~is_free(M.parts[k])
                       THEN LET F == free(M, k)
                            IN  [F EXCEPT !.procs[old].state = "Suspended",
                                          !.procs[old].partition = None]
                       ELSE M
                 M2 == assign_process(M1, k, p)
             IN  [ok |-> TRUE,
                  M |-> [M2 EXCEPT !.procs[p].state = "Ready"]]

\* variant: clears only the process's reference, never the partition
free_process_reference_only(M, p) ==
    IF M.procs[p].partition # None
    THEN [M EXCEPT !.procs[p].partition = None]
    ELSE M

free_process(M, p) ==
    IF M.procs[p].partition # None
    THEN LET F == free(M, M.procs[p].partition)
         IN  [F EXCEPT !.procs[p].partition = None]
    ELSE M

\* --------------------------------------------------------------- Scheduler
\* min(ready_queue, key=remaining_time): the first minimal element
\* variant: the last process with minimum remaining time is selected
select_next_process_last_minimal(P, rq) ==
    IF Len(rq) = 0 THEN None
    ELSE LET i == CHOOSE j \in 1..Len(rq) :
                     /\ \A h \in 1..Len(rq) :
                            P[rq[j]].remaining_time <= P[rq[h]].remaining_time
                     /\ \A h \in (j + 1)..Len(rq) :
                            P[rq[h]].remaining_time > P[rq[j]].remaining_time
         IN  rq[i]

\* variant: the head of the ready queue is selected
select_next_process_fifo(P, rq) == IF Len(rq) = 0 THEN None ELSE rq[1]

select_next_process(P, rq) ==
    IF Len(rq) = 0 THEN None
    ELSE LET i == CHOOSE j \in 1..Len(rq) :
                     /\ \A h \in 1..Len(rq) :
                            P[rq[j]].remaining_time <= P[rq[h]].remaining_time
                     /\ \A h \in 1..(j - 1) :
                            P[rq[h]].remaining_time > P[rq[j]].remaining_time
         IN  rq[i]

\* variant: a ready process with equal remaining time preempts too
should_preempt_on_tie(P, cur, rq) ==
    IF cur = None THEN FALSE
    ELSE IF Len(rq) > 0
         THEN P[select_next_process(P, rq)].remaining_time
                  <= P[cur].remaining_time
         ELSE FALSE

should_preempt(P, cur, rq) ==
    IF cur = None THEN FALSE
    ELSE IF Len(rq) > 0
         THEN P[select_next_process(P, rq)].remaining_time
                  < P[cur].remaining_time
         ELSE FALSE

\* S is the scheduler image [procs, cur]
start_execution(S, p) ==
    [procs |-> [S.procs EXCEPT ![p].state = "Executing"], cur |-> p]

\* variant: termination is detected only below zero
execute_tick_below_zero(S) ==
    IF S.cur = None THEN [finished |-> None, S |-> S]
    ELSE LET P1 == [S.procs EXCEPT ![S.cur].remaining_time = @ - 1]
         IN  IF P1[S.cur].remaining_time < 0
             THEN [finished |-> S.cur,
                   S |-> [procs |-> [P1 EXCEPT ![S.cur].state = "Terminated"],
                          cur |-> None]]
             ELSE [finished |-> None, S |-> [procs |-> P1, cur |-> S.cur]]

execute_tick(S) ==
    IF S.cur = None THEN [finished |-> None, S |-> S]
    ELSE LET P1 == [S.procs EXCEPT ![S.cur].remaining_time = @ - 1]
         IN  IF P1[S.cur].remaining_time <= 0
             THEN [finished |-> S.cur,
                   S |-> [procs |-> [P1 EXCEPT ![S.cur].state = "Terminated"],
                          cur |-> None]]
             ELSE [finished |-> None, S |-> [procs |-> P1, cur |-> S.cur]]

\* variant: the preempted process keeps state Executing
preempt_current_keeps_state(S) ==
    IF S.cur = None THEN [preempted |-> None, S |-> S]
    ELSE [preempted |-> S.cur, S |-> [procs |-> S.procs, cur |-> None]]

preempt_current(S) ==
    IF S.cur = None THEN [preempted |-> None, S |-> S]
    ELSE [preempted |-> S.cur,
          S |-> [procs |-> [S.procs EXCEPT ![S.cur].state = "Ready"],
                 cur |-> None]]

\* --------------------------------------------------------------- Simulator
\* E is the engine image [procs, parts, ready, susp]
Mem(E) == [procs |-> E.procs, parts |-> E.parts]

\* variant: the executing process is not counted as resident
current_dom_ready_only(rq, cur) == Len(rq)

current_dom(rq, cur) == Len(rq) + (IF cur # None THEN 1 ELSE 0)

\* variant: the process is marked Suspended but never queued
to_suspended_not_queued(E, p) == [E EXCEPT !.procs[p].state = "Suspended"]

to_suspended(E, p) ==
    [E EXCEPT !.procs[p].state = "Suspended",
              !.susp = IF Contains(E.susp, p) THEN @ ELSE Append(@, p)]

\* variant: a process is turned away only above the degree
try_load_to_memory_above_degree(E, cur, degree, p) ==
    IF current_dom(E.ready, cur) > degree THEN to_suspended(E, p)
    ELSE LET A == allocate_process(Mem(E), p)
         IN  IF A.ok
             THEN [procs |-> A.M.procs, parts |-> A.M.parts,
                   ready |-> IF Contains(E.ready, p) THEN E.ready
                             ELSE Append(E.ready, p),
                   susp |-> Remove(E.susp, p)]
             ELSE to_suspended(E, p)

try_load_to_memory(E, cur, degree, p) ==
    IF current_dom(E.ready, cur) >= degree THEN to_suspended(E, p)
    ELSE LET A == allocate_process(Mem(E), p)
         IN  IF A.ok
             THEN [procs |-> A.M.procs, parts |-> A.M.parts,
                   ready |-> IF Contains(E.ready, p) THEN E.ready
                             ELSE Append(E.ready, p),
                   susp |-> Remove(E.susp, p)]
             ELSE to_suspended(E, p)

RECURSIVE load_arrived(_, _, _, _)
load_arrived(E, cur, degree, arrived) ==
    IF Len(arrived) = 0 THEN E
    ELSE load_arrived(try_load_to_memory(E, cur, degree, Head(arrived)),
                      cur, degree, Tail(arrived))

\* variant: the arrived processes are kept in the arriving list
arrive_new_processes_keeps_arrived(E, cur, degree, all, clk) ==
    LET arrived == SelectSeq(all, LAMBDA p : E.procs[p].arrival_time = clk)
        remaining == SelectSeq(all, LAMBDA p : E.procs[p].arrival_time >= clk)
    IN  [all |-> remaining,
         E |-> load_arrived(E, cur, degree, arrived)]

arrive_new_processes(E, cur, degree, all, clk) ==
    LET arrived == SelectSeq(all, LAMBDA p : E.procs[p].arrival_time = clk)
        remaining == SelectSeq(all, LAMBDA p : E.procs[p].arrival_time > clk)
        P1 == [p \in DOMAIN E.procs |->
                 IF Contains(arrived, p)
                 THEN [E.procs[p] EXCEPT !.state = "New"] ELSE E.procs[p]]
    IN  [all |-> remaining,
         E |-> load_arrived([E EXCEPT !.procs = P1], cur, degree, arrived)]

RECURSIVE remove_all(_, _)
remove_all(q, to_remove) ==
    IF Len(to_remove) = 0 THEN q
    ELSE remove_all(Remove(q, Head(to_remove)), Tail(to_remove))

\* the loop of _try_load_suspended over the (unchanged) suspended queue
RECURSIVE load_suspended_loop(_, _, _, _, _, _)
load_suspended_loop(E, q, i, dom, degree, to_remove) ==
    IF i > Len(q) \/ dom >= degree
    THEN [E EXCEPT !.susp = remove_all(E.susp, to_remove)]
    ELSE LET A == allocate_process(Mem(E), q[i])
         IN  IF A.ok
             THEN load_suspended_loop(
                      [E EXCEPT !.procs = A.M.procs, !.parts = A.M.parts,
                                !.ready = IF Contains(E.ready, q[i]) THEN @
                                          ELSE Append(@, q[i])],
                      q, i + 1, dom + 1, degree, Append(to_remove, q[i]))
             ELSE load_suspended_loop(E, q, i + 1, dom, degree, to_remove)

\* variant: a head of suspended that cannot be allocated ends the scan
try_load_suspended_blocking(E, cur, degree) ==
    IF current_dom(E.ready, cur) >= degree \/ Len(E.susp) = 0 THEN E
    ELSE IF ~allocate_process(Mem(E), E.susp[1]).ok THEN E
         ELSE load_suspended_loop(E, E.susp, 1, current_dom(E.ready, cur),
                                  degree, <<>>)

\* variant: suspended processes are loaded whatever the resident count
try_load_suspended_ignoring_degree(E, cur, degree) ==
    load_suspended_loop(E, E.susp, 1, current_dom(E.ready, cur),
                        current_dom(E.ready, cur) + Len(E.susp) + 1, <<>>)

try_load_suspended(E, cur, degree) ==
    IF current_dom(E.ready, cur) >= degree THEN E
    ELSE load_suspended_loop(E, E.susp, 1, current_dom(E.ready, cur),
                             degree, <<>>)

RECURSIVE wait_loop(_, _, _)
wait_loop(P, q, cur) ==
    IF Len(q) = 0 THEN P
    ELSE LET p == Head(q)
             executing_id == IF cur # None THEN P[cur].id ELSE None
         IN  wait_loop(
                 IF /\ P[p].state \in {"Ready", "Suspended"}
                    /\ (cur = None \/ P[p].id # executing_id)
                    /\ P[p].first_execution_time = Unset
                 THEN [P EXCEPT ![p].wait_time = @ + 1] ELSE P,
                 Tail(q), cur)

\* variant: a waiting process accrues wait units after its first dispatch too
update_wait_times_after_dispatch(P, rq, sq, cur) ==
    [p \in DOMAIN P |->
        IF /\ p \in Range(rq \o sq)
           /\ P[p].state \in {"Ready", "Suspended"}
           /\ p # cur
        THEN [P[p] EXCEPT !.wait_time = @ + 1] ELSE P[p]]

\* variant: every process but the executing one accrues a wait unit
update_wait_times_everyone(P, rq, sq, cur) ==
    [p \in DOMAIN P |->
        IF p # cur THEN [P[p] EXCEPT !.wait_time = @ + 1] ELSE P[p]]

update_wait_times(P, rq, sq, cur) == wait_loop(P, rq \o sq, cur)

\* variant: every dispatch stamps the time
stamp_every_dispatch(p, clk) == [p EXCEPT !.first_execution_time = clk]

\* the first-dispatch stamp of _schedule_process
stamp_first_execution(p, clk) ==
    IF p.first_execution_time = Unset
    THEN [p EXCEPT !.first_execution_time = clk] ELSE p

\* C is the scheduling image [procs, ready, cur]
\* variant: without preemption, a process is dispatched only when none runs
schedule_process_without_preemption(C, clk) ==
    IF C.cur = None
    THEN LET next_process == select_next_process(C.procs, C.ready)
         IN  IF next_process # None
             THEN LET P1 == [C.procs EXCEPT ![next_process] =
                                stamp_first_execution(@, clk)]
                      S == start_execution([procs |-> P1, cur |-> C.cur],
                                           next_process)
                  IN  [procs |-> S.procs, cur |-> S.cur,
                       ready |-> Remove(C.ready, next_process)]
             ELSE C
    ELSE C

schedule_process(C, clk) ==
    LET C1 == IF should_preempt(C.procs, C.cur, C.ready)
              THEN LET R == preempt_current([procs |-> C.procs,
                                             cur |-> C.cur])
                   IN  [procs |-> R.S.procs, cur |-> R.S.cur,
                        ready |-> IF R.preempted # None
                                     /\ ~Contains(C.ready, R.preempted)
                                  THEN Append(C.ready, R.preempted)
                                  ELSE C.ready]
              ELSE C
    IN  IF C1.cur = None
        THEN LET next_process == select_next_process(C1.procs, C1.ready)
             IN  IF next_process # None
                 THEN LET P1 == [C1.procs EXCEPT ![next_process] =
                                    stamp_first_execution(@, clk)]
                          S == start_execution([procs |-> P1, cur |-> C1.cur],
                                               next_process)
                      IN  [procs |-> S.procs, cur |-> S.cur,
                           ready |-> Remove(C1.ready, next_process)]
                 ELSE C1
        ELSE C1

\* variant: finish_time is the tick's own clock
finish_process_at_clock(p, clk) ==
    calculate_statistics([p EXCEPT !.finish_time = clk])

\* _execute_tick's bookkeeping of the finished process
finish_process(p, clk) ==
    calculate_statistics([p EXCEPT !.finish_time = clk + 1])

\* X is the execution image [procs, parts, cur, terminated]
simulator_execute_tick(X, clk) ==
    LET R == execute_tick([procs |-> X.procs, cur |-> X.cur])
        f == R.finished
    IN  IF f # None /\ R.S.procs[f].remaining_time <= 0
                    /\ R.S.procs[f].state = "Terminated"
        THEN LET P1 == [R.S.procs EXCEPT ![f] = finish_process(@, clk)]
                 M == free_process([procs |-> P1, parts |-> X.parts], f)
             IN  [procs |-> M.procs, parts |-> M.parts, cur |-> None,
                  terminated |-> IF Contains(X.terminated, f) THEN X.terminated
                                 ELSE Append(X.terminated, f)]
        ELSE [procs |-> R.S.procs, parts |-> X.parts, cur |-> R.S.cur,
              terminated |-> X.terminated]

\* ------------------------------------------------------------------ inputs
SeqsUpTo(S, lo, hi) == UNION {[1..n -> S] : n \in lo..hi}

\* FileReader.read_processes sorts the rows by arrival time
SortedByArrival(a) == \A i, j \in DOMAIN a : i < j => a[i] <= a[j]

\* ------------------------------------------------------------------- state
Init ==
    /\ \E n \in ProcessCounts :
         \E size \in [1..n -> Sizes],
            arrival \in [1..n -> ArrivalTimes],
            burst \in [1..n -> BurstTimes] :
            /\ SortedByArrival(arrival)
            /\ procs = [i \in 1..n |->
                          Process(i, size[i], arrival[i], burst[i])]
            /\ all_processes = [i \in 1..n |-> i]
            /\ total_processes = n
    /\ \E sizes \in SeqsUpTo(Sizes, 0, MaxParts) :
         partitions = [k \in DOMAIN sizes |-> Partition(k, sizes[k])]
    /\ degree_of_multiprogramming \in 0..MaxDegree
    /\ ready_queue = <<>>
    /\ suspended_queue = <<>>
    /\ terminated_queue = <<>>
    /\ current_process = None
    /\ clock = 0
    /\ pc = "arrive"
    /\ ret = "None"

\* variant: the loop test alone, without the safety bound
run_continues_unbounded(nterm, total, clk) == nterm < total

\* run(): the while condition and the safety bound that breaks out of it
run_continues(nterm, total, clk) == nterm < total /\ ~(clk >= max_ticks)

\* run(): loop test, safety bound and step 1 (arrivals); cap bounds the
\* ticks that are explored
Arrive(cap) ==
    /\ pc = "arrive"
    /\ run_continues(Len(terminated_queue), total_processes, clock)
    /\ clock < cap
    /\ LET R == arrive_new_processes(
                    [procs |-> procs, parts |-> partitions,
                     ready |-> ready_queue, susp |-> suspended_queue],
                    current_process, degree_of_multiprogramming,
                    all_processes, clock)
       IN  /\ all_processes' = R.all
           /\ procs' = R.E.procs
           /\ partitions' = R.E.parts
           /\ ready_queue' = R.E.ready
           /\ suspended_queue' = R.E.susp
    /\ pc' = "suspended"
    /\ UNCHANGED <<terminated_queue, current_process, clock,
                   degree_of_multiprogramming, total_processes, ret>>

ArriveNewProcesses == Arrive(MaxClock)

\* run(): the loop ends
Stop ==
    /\ pc = "arrive"
    /\ ~run_continues(Len(terminated_queue), total_processes, clock)
    /\ pc' = "done"
    /\ UNCHANGED <<procs, partitions, all_processes, ready_queue,
                   suspended_queue, terminated_queue, current_process, clock,
                   degree_of_multiprogramming, total_processes, ret>>

\* run(): step 2
TryLoadSuspended ==
    /\ pc = "suspended"
    /\ LET E == try_load_suspended(
                    [procs |-> procs, parts |-> partitions,
                     ready |-> ready_queue, susp |-> suspended_queue],
                    current_process, degree_of_multiprogramming)
       IN  /\ procs' = E.procs
           /\ partitions' = E.parts
           /\ ready_queue' = E.ready
           /\ suspended_queue' = E.susp
    /\ pc' = "schedule"
    /\ UNCHANGED <<all_processes, terminated_queue, current_process, clock,
                   degree_of_multiprogramming, total_processes, ret>>

\* run(): step 3
ScheduleProcess ==
    /\ pc = "schedule"
    /\ LET C == schedule_process([procs |-> procs, ready |-> ready_queue,
                                  cur |-> current_process], clock)
       IN  /\ procs' = C.procs
           /\ ready_queue' = C.ready
           /\ current_process' = C.cur
    /\ pc' = "wait"
    /\ UNCHANGED <<partitions, all_processes, suspended_queue,
                   terminated_queue, clock, degree_of_multiprogramming,
                   total_processes, ret>>

\* run(): step 4
UpdateWaitTimes ==
    /\ pc = "wait"
    /\ procs' = update_wait_times(procs, ready_queue, suspended_queue,
                                  current_process)
    /\ pc' = "execute"
    /\ UNCHANGED <<partitions, all_processes, ready_queue, suspended_queue,
                   terminated_queue, current_process, clock,
                   degree_of_multiprogramming, total_processes, ret>>

\* run(): step 5
ExecuteTick ==
    /\ pc = "execute"
    /\ LET X == simulator_execute_tick(
                    [procs |-> procs, parts |-> partitions,
                     cur |-> current_process,
                     terminated |-> terminated_queue], clock)
       IN  /\ procs' = X.procs
           /\ partitions' = X.parts
           /\ current_process' = X.cur
           /\ terminated_queue' = X.terminated
    /\ pc' = "advance"
    /\ UNCHANGED <<all_processes, ready_queue, suspended_queue, clock,
                   degree_of_multiprogramming, total_processes, ret>>

\* run(): step 7
AdvanceClock ==
    /\ pc = "advance"
    /\ clock' = clock + 1
    /\ pc' = "arrive"
    /\ UNCHANGED <<procs, partitions, all_processes, ready_queue,
                   suspended_queue, terminated_queue, current_process,
                   degree_of_multiprogramming, total_processes, ret>>

Next ==
    \/ ArriveNewProcesses
    \/ Stop
    \/ TryLoadSuspended
    \/ ScheduleProcess
    \/ UpdateWaitTimes
    \/ ExecuteTick
    \/ AdvanceClock

\* run() is sequential code: whenever a step of the loop can be taken it is
\* taken.  Every step changes pc, so that a step is enabled exactly when
\* CanStep holds; Fair(cap) is WF_vars of the next-state relation whose
\* arrivals are explored up to cap, with ENABLED written out as CanStep.
CanStep(cap) ==
    /\ pc # "done"
    /\ (/\ pc = "arrive"
        /\ run_continues(Len(terminated_queue), total_processes, clock)) =>
          clock < cap

Spec == Init /\ [][Next]_vars

\* ------------------------------------------- MemoryManager called directly
\* Processes and partitions as constructed, then allocate_process and
\* free_process called on any process in any order; ret is the value the
\* last call returned.
InitCalls ==
    /\ \E n \in CallProcessCounts :
         \E size \in [1..n -> 1..CallSize] :
            /\ procs = [i \in 1..n |-> Process(i, size[i], 0, 1)]
            /\ total_processes = n
    /\ \E sizes \in SeqsUpTo(1..CallSize, 0, CallParts) :
         partitions = [k \in DOMAIN sizes |-> Partition(k, sizes[k])]
    /\ all_processes = <<>>
    /\ degree_of_multiprogramming = 0
    /\ ready_queue = <<>>
    /\ suspended_queue = <<>>
    /\ terminated_queue = <<>>
    /\ current_process = None
    /\ clock = 0
    /\ pc = "call"
    /\ ret = "None"

AllocateCall(p) ==
    /\ pc = "call"
    /\ LET A == allocate_process([procs |-> procs, parts |-> partitions], p)
       IN  /\ procs' = A.M.procs
           /\ partitions' = A.M.parts
           /\ ret' = IF A.ok THEN "True" ELSE "False"
    /\ UNCHANGED <<all_processes, ready_queue, suspended_queue,
                   terminated_queue, current_process, clock,
                   degree_of_multiprogramming, total_processes, pc>>

FreeCall(p) ==
    /\ pc = "call"
    /\ LET M == free_process([procs |-> procs, parts |-> partitions], p)
       IN  /\ procs' = M.procs
           /\ partitions' = M.parts
    /\ ret' = "None"
    /\ UNCHANGED <<all_processes, ready_queue, suspended_queue,
                   terminated_queue, current_process, clock,
                   degree_of_multiprogramming, total_processes, pc>>

NextCalls ==
    \/ \E p \in DOMAIN procs : AllocateCall(p)
    \/ \E p \in DOMAIN procs : FreeCall(p)

SpecCalls == InitCalls /\ [][NextCalls]_vars

\* ================================================================ properties
Procs == DOMAIN procs

Parts == DOMAIN partitions

Occurrences(q, x) == Cardinality({i \in 1..Len(q) : q[i] = x})

\* number of places (arriving list, ready, suspended, terminated, current
\* slot) that hold process p, counting repetitions inside a queue
Places(p) ==
    Occurrences(all_processes, p) + Occurrences(ready_queue, p)
      + Occurrences(suspended_queue, p) + Occurrences(terminated_queue, p)
      + (IF current_process = p THEN 1 ELSE 0)

\* C1: after every step of every tick each loaded process with
\* arrival_time >= 0 is in exactly one of the arriving list, ready,
\* suspended, terminated and the scheduler's current slot.
C1_ExactlyOnePlace ==
    \A p \in Procs : procs[p].arrival_time >= 0 => Places(p) = 1

\* a tick has run far enough that one process is terminated, one is
\* executing and one sits in suspended
C1_Witness ==
    /\ pc = "advance"
    /\ Len(terminated_queue) > 0
    /\ current_process # None
    /\ Len(suspended_queue) > 0

\* C2: at most one process has state Executing, and a process has state
\* Executing if and only if it is the scheduler's current process.
C2_SingleExecuting ==
    /\ Cardinality({p \in Procs : procs[p].state = "Executing"}) <= 1
    /\ \A p \in Procs : procs[p].state = "Executing" <=> current_process = p

\* a process executes while a process it preempted waits in ready
C2_Witness ==
    /\ current_process # None
    /\ \E p \in Range(ready_queue) :
          /\ procs[p].first_execution_time # Unset
          /\ procs[p].state = "Ready"

\* C3: the resident count len(ready) + (1 if executing) never exceeds the
\* degree of multiprogramming.
C3_ResidentWithinDegree ==
    Len(ready_queue) + (IF current_process # None THEN 1 ELSE 0)
        <= degree_of_multiprogramming

\* degree 1: a process that had to wait in suspended was re-admitted after
\* another one terminated and now fills the only resident slot
C3_Witness ==
    /\ degree_of_multiprogramming = 1
    /\ Len(terminated_queue) > 0
    /\ current_process # None
    /\ procs[current_process].wait_time > 0
    /\ \E k \in Parts : is_free(partitions[k])

\* C4: in the scheduling step the current process is preempted iff some
\* ready process has strictly smaller remaining_time; the preempted process
\* gets state Ready and is appended to ready; the process that executes
\* afterwards has remaining_time <= that of every process left in ready.
C4_ShorterInReady ==
    /\ current_process # None
    /\ \E q \in Range(ready_queue) :
          procs[q].remaining_time < procs[current_process].remaining_time

C4_SRTFPreemption ==
    [][pc = "schedule" =>
         /\ (current_process # None /\ current_process' # current_process)
               <=> C4_ShorterInReady
         /\ C4_ShorterInReady =>
               /\ procs'[current_process].state = "Ready"
               /\ Len(ready_queue') > 0
               /\ ready_queue'[Len(ready_queue')] = current_process
         /\ current_process' # None =>
               \A q \in Range(ready_queue') :
                  procs'[current_process'].remaining_time
                      <= procs'[q].remaining_time]_vars

\* right after a scheduling step that preempted: the process dispatched in
\* this tick is shorter than the previously running one, now last in ready
C4_Witness ==
    /\ pc = "wait"
    /\ current_process # None
    /\ procs[current_process].first_execution_time = clock
    /\ Len(ready_queue) > 0
    /\ LET old == ready_queue[Len(ready_queue)]
       IN  /\ procs[old].first_execution_time # Unset
           /\ procs[old].remaining_time < procs[old].burst_time
           /\ procs[current_process].remaining_time
                  < procs[old].remaining_time

\* C5: find_best_fit returns the first partition in list order among the
\* free partitions with size >= process.size of minimal leftover, and None
\* exactly when no free partition fits; an allocate that succeeds therefore
\* takes a partition no free fitting partition had a smaller leftover than.
C5_Fits(k, p) ==
    is_free(partitions[k]) /\ partitions[k].size >= procs[p].size

C5_BestFitResult ==
    \A p \in Procs :
       LET k == find_best_fit([procs |-> procs, parts |-> partitions], p)
       IN  /\ k = None <=> ~ \E j \in Parts : C5_Fits(j, p)
           /\ k # None =>
                /\ k \in Parts
                /\ C5_Fits(k, p)
                /\ \A j \in Parts :
                      C5_Fits(j, p) => partitions[j].size >= partitions[k].size
                /\ \A j \in 1..(k - 1) :
                      C5_Fits(j, p) => partitions[j].size > partitions[k].size

C5_AllocateTakesBest ==
    \A k \in Parts :
       (is_free(partitions[k]) /\ ~is_free(partitions'[k])) =>
           LET p == partitions'[k].process
           IN  /\ C5_Fits(k, p)
               /\ \A j \in Parts :
                     C5_Fits(j, p) => partitions[j].size >= partitions[k].size
               /\ \A j \in 1..(k - 1) :
                     C5_Fits(j, p) => partitions[j].size > partitions[k].size

C5_BestFit == []C5_BestFitResult /\ [][C5_AllocateTakesBest]_vars

\* a process was placed in the second partition although the larger first
\* one and the equally large third one were free
C5_Witness ==
    /\ Len(partitions) = 3
    /\ ret = "True"
    /\ is_free(partitions[1])
    /\ is_free(partitions[3])
    /\ ~is_free(partitions[2])
    /\ procs[partitions[2].process].partition = 2
    /\ partitions[1].size > partitions[2].size
    /\ partitions[3].size = partitions[2].size

\* C6: every process in terminated has remaining_time = 0,
\* finish_time = arrival_time + turnaround_time,
\* wait_time = first_execution_time - arrival_time, first_execution_time
\* set and arrival_time <= first_execution_time < finish_time.
C6_TerminatedStatistics ==
    \A p \in Range(terminated_queue) :
       /\ procs[p].remaining_time = 0
       /\ procs[p].finish_time = procs[p].arrival_time + procs[p].turnaround_time
       /\ procs[p].wait_time
              = procs[p].first_execution_time - procs[p].arrival_time
       /\ procs[p].first_execution_time # Unset
       /\ procs[p].arrival_time <= procs[p].first_execution_time
       /\ procs[p].first_execution_time < procs[p].finish_time

\* C7: every terminated process has turnaround_time >= burst_time.
C7_TurnaroundAtLeastBurst ==
    \A p \in Procs :
       procs[p].state = "Terminated" =>
           procs[p].turnaround_time >= procs[p].burst_time

\* a terminated process that was preempted on its way: it took longer than
\* its wait before the first dispatch plus its burst
C7_Witness ==
    \E p \in Range(terminated_queue) :
       /\ procs[p].burst_time > 1
       /\ procs[p].turnaround_time
              > procs[p].burst_time
                  + (procs[p].first_execution_time - procs[p].arrival_time)

\* C8: a process with positive burst_time always has remaining_time >= 0,
\* and remaining_time = 0 exactly when its state is Terminated.
C8_RemainingTime ==
    \A p \in Procs :
       procs[p].burst_time > 0 =>
           /\ procs[p].remaining_time >= 0
           /\ procs[p].remaining_time = 0 <=> procs[p].state = "Terminated"

\* one process with positive burst has run to completion while another one
\* is executing with work left
C8_Witness ==
    /\ \E p \in Procs :
          procs[p].burst_time > 1 /\ procs[p].state = "Terminated"
    /\ \E q \in Procs :
          /\ procs[q].state = "Executing"
          /\ procs[q].remaining_time > 0
          /\ procs[q].remaining_time < procs[q].burst_time

\* C9: first_execution_time is set in the scheduling step that dispatches
\* the process for the first time, to that tick's clock, and never changes
\* afterwards; a later dispatch does not restamp it.
C9_FirstExecutionStamp ==
    [][\A p \in Procs :
          /\ procs[p].first_execution_time # Unset =>
                procs'[p].first_execution_time = procs[p].first_execution_time
          /\ (procs[p].first_execution_time = Unset
                /\ procs'[p].first_execution_time # Unset) =>
                /\ pc = "schedule"
                /\ current_process' = p
                /\ procs'[p].first_execution_time = clock
          /\ (current_process' = p /\ current_process # p) =>
                procs'[p].first_execution_time # Unset]_vars

\* a process dispatched again after a preemption: it is executing and has
\* been off the processor for part of the time since its first dispatch
C9_Witness ==
    /\ pc = "wait"
    /\ current_process # None
    /\ LET p == procs[current_process]
       IN  /\ p.first_execution_time # Unset
           /\ p.first_execution_time < clock
           /\ p.first_execution_time + (p.burst_time - p.remaining_time)
                  < clock

\* C10: the process-partition relation is one-to-one and consistent: a
\* partition's occupant refers back to that partition, a process's
\* partition names it as occupant, and no process occupies two partitions.
C10_OneToOne ==
    /\ \A k \in Parts :
          ~is_free(partitions[k]) =>
              /\ partitions[k].process \in Procs
              /\ procs[partitions[k].process].partition = k
    /\ \A p \in Procs :
          procs[p].partition # None =>
              /\ procs[p].partition \in Parts
              /\ partitions[procs[p].partition].process = p
    /\ \A j, k \in Parts :
          (j # k /\ ~is_free(partitions[j])) =>
              partitions[j].process # partitions[k].process

\* two partitions hold two different processes after a third process has
\* terminated and given its partition back
C10_Witness ==
    /\ Len(terminated_queue) > 0
    /\ \E j, k \in Parts :
          /\ j # k
          /\ ~is_free(partitions[j])
          /\ ~is_free(partitions[k])

\* C11: a partition's internal_fragmentation is size - occupant.size while it
\* is occupied and 0 while it is free, and it is never negative.
C11_Fragmentation ==
    \A k \in Parts :
       /\ partitions[k].internal_fragmentation >= 0
       /\ is_free(partitions[k]) => partitions[k].internal_fragmentation = 0
       /\ ~is_free(partitions[k]) =>
             partitions[k].internal_fragmentation
                 = partitions[k].size - procs[partitions[k].process].size

\* a process smaller than its partition has terminated and left it free
\* while another partition is occupied with space left over
C11_Witness ==
    /\ \E p \in Range(terminated_queue), k \in Parts :
          is_free(partitions[k]) /\ partitions[k].size > procs[p].size
    /\ \E k \in Parts :
          ~is_free(partitions[k]) /\ partitions[k].internal_fragmentation > 0

\* C12: allocate_process called on a process that already occupies a
\* partition returns False and leaves the process in exactly its original
\* partition, named as occupant by no other partition.
C12_AllocatePlacedRejected ==
    [][\A p \in Procs :
          (procs[p].partition # None /\ AllocateCall(p)) =>
              /\ ret' = "False"
              /\ procs'[p].partition = procs[p].partition
              /\ \A k \in Parts :
                    partitions'[k].process = p <=> k = procs[p].partition]_vars

\* C13: free_process on a process that holds a partition clears that
\* partition's occupant and fragmentation and the process's reference and
\* touches no other partition or process; on a process that holds no
\* partition (also right after a first free) it changes nothing.
C13_FreeProcess ==
    [][\A p \in Procs :
          FreeCall(p) =>
              LET k == procs[p].partition
              IN  IF k # None
                  THEN /\ partitions'[k].process = None
                       /\ partitions'[k].internal_fragmentation = 0
                       /\ partitions'[k].size = partitions[k].size
                       /\ \A j \in Parts \ {k} : partitions'[j] = partitions[j]
                       /\ procs' = [procs EXCEPT ![p].partition = None]
                  ELSE procs' = procs /\ partitions' = partitions]_vars

\* a process was placed and freed again while another process still holds
\* its partition
C13_Witness ==
    /\ ret = "None"
    /\ \E p, q \in Procs :
          /\ procs[p].state = "Ready"
          /\ procs[p].partition = None
          /\ \A k \in Parts : partitions[k].process # p
          /\ procs[q].partition # None
          /\ partitions[procs[q].partition].process = q

\* C14: when the partition find_best_fit returns to allocate_process is
\* occupied by a different process, that occupant is evicted (state
\* Suspended, no partition) before the new process is assigned, set Ready
\* and True returned.  C14_EvictionCase is the case the statement is about;
\* find_best_fit returns free partitions only, so no state satisfies it.
C14_EvictionCase ==
    \E p \in Procs :
       LET k == find_best_fit([procs |-> procs, parts |-> partitions], p)
       IN  /\ k # None
           /\ ~is_free(partitions[k])
           /\ partitions[k].process # p

C14_NoEvictionCase == ~C14_EvictionCase

C14_EvictThenAssign ==
    [][\A p \in Procs :
          LET k == find_best_fit([procs |-> procs, parts |-> partitions], p)
              old == partitions[k].process
          IN  (AllocateCall(p) /\ k # None /\ ~is_free(partitions[k])
                 /\ old # p) =>
                  /\ procs'[old].state = "Suspended"
                  /\ procs'[old].partition = None
                  /\ partitions'[k].process = p
                  /\ procs'[p].partition = k
                  /\ procs'[p].state = "Ready"
                  /\ ret' = "True"]_vars

\* C15: admission of an arriving process.  With the resident count
\* len(ready) + (1 if executing) >= degree it is appended to suspended with
\* state Suspended and no partition is modified; otherwise it ends in ready,
\* Ready, in a partition that was free and large enough, or, when no free
\* partition fits, in suspended, Suspended, without partition.
C15_Resident == Len(ready_queue) + (IF current_process # None THEN 1 ELSE 0)

C15_Arriving ==
    {p \in Range(all_processes) : procs[p].arrival_time = clock}

C15_FreeFit(p) ==
    \E k \in Parts :
       partitions[k].process = None /\ partitions[k].size >= procs[p].size

C15_Admitted(p) ==
    /\ p \in Range(ready_queue') /\ p \notin Range(suspended_queue')
    /\ procs'[p].state = "Ready"
    /\ procs'[p].partition \in Parts
    /\ partitions'[procs'[p].partition].process = p
    /\ partitions[procs'[p].partition].process = None
    /\ partitions[procs'[p].partition].size >= procs[p].size

C15_TurnedAway(p) ==
    /\ p \in Range(suspended_queue') /\ p \notin Range(ready_queue')
    /\ procs'[p].state = "Suspended"
    /\ procs'[p].partition = None
    /\ \A k \in Parts : partitions'[k].process # p

C15_IsPrefix(q, r) == Len(q) <= Len(r) /\ SubSeq(r, 1, Len(q)) = q

C15_AdmissionRule ==
    [][(pc = "arrive" /\ pc' = "suspended") =>
         /\ \A p \in C15_Arriving :
               /\ C15_Admitted(p) \/ C15_TurnedAway(p)
               /\ C15_TurnedAway(p) =>
                     \/ C15_Resident' >= degree_of_multiprogramming
                     \/ ~C15_FreeFit(p)'
               /\ C15_Admitted(p) =>
                     C15_Resident' <= degree_of_multiprogramming
         /\ C15_Resident >= degree_of_multiprogramming =>
               /\ partitions' = partitions
               /\ \A p \in C15_Arriving : C15_TurnedAway(p)
         /\ C15_IsPrefix(ready_queue, ready_queue')
         /\ C15_IsPrefix(suspended_queue, suspended_queue')
         /\ \A i \in 1..Len(all_processes) :
               \* the first process to arrive in this tick meets the
               \* queues and partitions as they were before the step
               (/\ all_processes[i] \in C15_Arriving
                /\ \A h \in 1..(i - 1) : all_processes[h] \notin C15_Arriving
                /\ C15_Resident < degree_of_multiprogramming) =>
                   IF C15_FreeFit(all_processes[i])
                   THEN C15_Admitted(all_processes[i])
                   ELSE C15_TurnedAway(all_processes[i])]_vars

\* in one tick an arriving process was admitted and a later one, for which a
\* free partition is still large enough, was turned away by the degree
C15_Witness ==
    /\ pc = "suspended"
    /\ \E p \in Range(ready_queue), q \in Range(suspended_queue) :
          /\ procs[p].arrival_time = clock
          /\ procs[q].arrival_time = clock
          /\ procs[p].partition # None
          /\ procs[q].state = "Suspended"
          /\ C15_FreeFit(q)

\* ------------------------------------------------- degree 1, two processes
\* main(): two processes that both fit some partition, degree 1
InitDegreeOne ==
    /\ Init
    /\ degree_of_multiprogramming = 1
    /\ Len(procs) = 2
    /\ \A p \in Procs : \E k \in Parts : partitions[k].size >= procs[p].size

SpecDegreeOne ==
    /\ InitDegreeOne
    /\ [][Next]_vars
    /\ ([]<>~CanStep(MaxClock) \/ []<><<Next>>_vars)

C16_Resident(p) == p \in Range(ready_queue) \/ current_process = p

C16_Arrived(p) == p \notin Range(all_processes)

\* while one process is resident, the other one, once arrived and not
\* terminated, is in suspended
C16_SecondSuspended ==
    \A p, q \in Procs :
       (/\ p # q
        /\ C16_Resident(p)
        /\ C16_Arrived(q)
        /\ procs[q].state # "Terminated") =>
           /\ q \in Range(suspended_queue)
           /\ procs[q].state = "Suspended"

\* a suspended process enters ready only when the other one has terminated,
\* on a tick after the tick of that termination
C16_AdmittedAfterTermination ==
    \A p, q \in Procs :
       (/\ p # q
        /\ q \in Range(suspended_queue)
        /\ q \in Range(ready_queue')) =>
           /\ procs[p].state = "Terminated"
           /\ procs[p].finish_time <= clock
           /\ procs[p].finish_time - 1 < clock

C16_AllTerminated == \A p \in Procs : procs[p].state = "Terminated"

C17_Alone ==
    /\ Len(procs) = 1
    /\ degree_of_multiprogramming >= 1
    /\ \E k \in Parts : partitions[k].size >= procs[1].size

\* C17: a process alone in the system that fits some partition, with degree
\* >= 1, occupies a partition at its arrival tick, executes on the ticks
\* arrival .. arrival + burst - 1 and terminates with finish_time = arrival +
\* burst, wait_time = 0 and turnaround_time = burst.
C17_SingleProcess ==
    C17_Alone =>
       /\ (clock = procs[1].arrival_time /\ pc = "suspended") =>
             /\ procs[1].partition \in Parts
             /\ partitions[procs[1].partition].process = 1
       /\ (pc = "execute" /\ current_process = 1) =>
             /\ procs[1].arrival_time <= clock
             /\ clock <= procs[1].arrival_time + procs[1].burst_time - 1
       /\ (pc = "execute" /\ procs[1].arrival_time <= clock
             /\ clock <= procs[1].arrival_time + procs[1].burst_time - 1) =>
             current_process = 1
       /\ procs[1].state = "Terminated" =>
             /\ procs[1].finish_time
                   = procs[1].arrival_time + procs[1].burst_time
             /\ procs[1].wait_time = 0
             /\ procs[1].turnaround_time = procs[1].burst_time

\* -------------------------------------- two simultaneous processes, SRTF
TwoProcessClock == 14

\* main(): processes {1, 50, 0, 10} and {2, 50, 0, 3}, two partitions that
\* each hold one of them, degree >= 2
InitShorterFirst ==
    /\ procs = <<Process(1, 50, 0, 10), Process(2, 50, 0, 3)>>
    /\ all_processes = <<1, 2>>
    /\ total_processes = 2
    /\ \E sizes \in [1..2 -> {50, 60, 100}] :
         partitions = [k \in 1..2 |-> Partition(k, sizes[k])]
    /\ degree_of_multiprogramming \in 2..(MaxDegree + 1)
    /\ ready_queue = <<>>
    /\ suspended_queue = <<>>
    /\ terminated_queue = <<>>
    /\ current_process = None
    /\ clock = 0
    /\ pc = "arrive"
    /\ ret = "None"

ArriveShorterFirst == Arrive(TwoProcessClock)

NextShorterFirst ==
    \/ ArriveShorterFirst
    \/ Stop
    \/ TryLoadSuspended
    \/ ScheduleProcess
    \/ UpdateWaitTimes
    \/ ExecuteTick
    \/ AdvanceClock

SpecShorterFirst ==
    /\ InitShorterFirst
    /\ [][NextShorterFirst]_vars
    /\ ([]<>~CanStep(TwoProcessClock) \/ []<><<NextShorterFirst>>_vars)

\* during tick 0, once the arrivals are processed, both hold a partition
C18_BothInMemoryAtTickZero ==
    (clock = 0 /\ pc # "arrive") =>
       \A p \in Procs :
          /\ procs[p].partition \in Parts
          /\ partitions[procs[p].partition].process = p

\* the process dispatched at tick 0 is process 2
C18_TwoDispatchedAtTickZero ==
    /\ (clock = 0 /\ pc \in {"wait", "execute"}) => current_process = 2
    /\ (clock = 0 /\ pc \in {"arrive", "suspended", "schedule"}) =>
          current_process = None
    /\ (clock > 0 \/ pc \in {"wait", "execute", "advance"}) =>
          procs[2].first_execution_time = 0

\* process 1 executes for the first time only once process 2 has terminated
C18_OneAfterTwo ==
    (current_process = 1 \/ procs[1].first_execution_time # Unset
        \/ procs[1].remaining_time < procs[1].burst_time) =>
       /\ procs[2].state = "Terminated"
       /\ procs[1].first_execution_time >= procs[2].finish_time

C18_FinishTimes ==
    /\ procs[2].state = "Terminated" => procs[2].finish_time = 3
    /\ procs[1].state = "Terminated" => procs[1].finish_time = 13
    /\ pc = "done" => \A p \in Procs : procs[p].state = "Terminated"

\* C18: with processes {1, 50, 0, 10} and {2, 50, 0, 3}, two partitions that
\* each fit one of them and degree >= 2, both are in memory at tick 0,
\* process 2 is the one dispatched at tick 0, process 1 first executes only
\* after process 2 terminates, process 2 finishes at 3 and process 1 at 13.
C18_ShorterFirst ==
    /\ [](/\ C18_BothInMemoryAtTickZero
          /\ C18_TwoDispatchedAtTickZero
          /\ C18_OneAfterTwo
          /\ C18_FinishTimes)
    /\ <>[](/\ procs[2].state = "Terminated" /\ procs[2].finish_time = 3
            /\ procs[1].state = "Terminated" /\ procs[1].finish_time = 13)

C18_Witness ==
    /\ procs[1].size = 50 /\ procs[1].burst_time = 10
    /\ procs[2].size = 50 /\ procs[2].burst_time = 3
    /\ pc = "done"
    /\ terminated_queue = <<2, 1>>
    /\ procs[2].first_execution_time = 0
    /\ procs[1].first_execution_time = 3

\* ------------------------------------------------- a process that fits nowhere
C19_Unfit(p) == \A k \in Parts : partitions[k].size < procs[p].size

C19_HasArrived(p) ==
    \/ clock > procs[p].arrival_time
    \/ clock = procs[p].arrival_time /\ pc # "arrive"

\* from its arrival tick onward the unfit process stays suspended
C19_StaysSuspended ==
    \A p \in Procs :
       (C19_Unfit(p) /\ C19_HasArrived(p)) =>
          /\ p \in Range(suspended_queue)
          /\ p \notin Range(ready_queue)
          /\ p \notin Range(terminated_queue)
          /\ current_process # p
          /\ procs[p].state = "Suspended"
          /\ procs[p].partition = None
          /\ \A k \in Parts : partitions[k].process # p
          /\ procs[p].first_execution_time = Unset
          /\ procs[p].finish_time = 0

\* the ticks the processes 1..n that fit some partition execute in all (a
\* burst of 0 is executed for one tick)
RECURSIVE C19_Work(_)
C19_Work(n) ==
    IF n = 0 THEN 0
    ELSE C19_Work(n - 1)
           + (IF C19_Unfit(n) THEN 0
              ELSE IF procs[n].burst_time = 0 THEN 1 ELSE procs[n].burst_time)

\* the input is sorted by arrival time
C19_LastArrival == procs[Len(procs)].arrival_time

\* beside an unfit process the processor is never idle while a process that
\* fits is waiting: the processes that fit have all terminated once the
\* clock reaches the last arrival plus the ticks they execute
C19_OthersTerminate ==
    (/\ \E p \in Procs : C19_Unfit(p)
     /\ degree_of_multiprogramming >= 1
     /\ clock >= C19_LastArrival + C19_Work(Len(procs))) =>
        \A q \in Procs : ~C19_Unfit(q) => procs[q].state = "Terminated"

\* C19: a process larger than every partition is, from its arrival tick
\* onward, always in suspended with state Suspended, holds no partition,
\* never gets first_execution_time or finish_time and never reaches
\* Terminated; the other processes are still admitted and terminate.
C19_UnfitProcess == C19_StaysSuspended /\ C19_OthersTerminate

\* an unfit process sits in suspended, ahead of a process that arrived later,
\* passed through suspended and memory and terminated
C19_Witness ==
    \E p, q \in Procs :
       /\ C19_Unfit(p) /\ C19_HasArrived(p)
       /\ p \in Range(suspended_queue)
       /\ procs[p].wait_time > 1
       /\ ~C19_Unfit(q)
       /\ procs[q].arrival_time >= procs[p].arrival_time
       /\ p < q
       /\ procs[q].state = "Terminated"
       /\ procs[q].wait_time > 0
       /\ degree_of_multiprogramming >= 1
       /\ clock >= C19_LastArrival + C19_Work(Len(procs))

\* ------------------------------------------------ the run loop to its end
FullRunClock == 1001

\* main(): two processes arriving at tick 0, one partition, degree >= 1; a
\* process larger than the partition keeps the loop running to the bound
InitFullRun ==
    /\ Init
    /\ Len(procs) = 2
    /\ \A p \in Procs : procs[p].arrival_time = 0
    /\ Len(partitions) = 1
    /\ degree_of_multiprogramming >= 1

ArriveFullRun == Arrive(FullRunClock)

NextFullRun ==
    \/ ArriveFullRun
    \/ Stop
    \/ TryLoadSuspended
    \/ ScheduleProcess
    \/ UpdateWaitTimes
    \/ ExecuteTick
    \/ AdvanceClock

SpecFullRun ==
    /\ InitFullRun
    /\ [][NextFullRun]_vars
    /\ ([]<>~CanStep(FullRunClock) \/ []<><<NextFullRun>>_vars)

C20_InTick == pc \in {"suspended", "schedule", "wait", "execute", "advance"}

\* no tick is run with clock >= 1000, and the clock never passes the bound
C20_NoTickAtBound ==
    /\ C20_InTick => clock < 1000
    /\ clock <= 1000

\* the loop has ended exactly at the first test that found every process
\* terminated or the clock at the bound
C20_EndsExactlyThen ==
    pc = "done" =>
       /\ Len(terminated_queue) = total_processes \/ clock = 1000
       /\ Len(terminated_queue) = total_processes =>
             clock = procs[terminated_queue[total_processes]].finish_time

\* a tick is started only with processes left and the clock below the bound;
\* otherwise the loop ends, and ending it changes no process
C20_LoopTest ==
    /\ (pc = "arrive" /\ pc' = "suspended") =>
          Len(terminated_queue) < total_processes /\ clock < 1000
    /\ (pc = "arrive" /\ pc' = "done") =>
          /\ Len(terminated_queue) >= total_processes \/ clock >= 1000
          /\ procs' = procs
          /\ terminated_queue' = terminated_queue
          /\ clock' = clock

\* after a stop at the bound the terminated processes hold their statistics
C20_PartialResults ==
    (pc = "done" /\ Len(terminated_queue) < total_processes) =>
       \A p \in Range(terminated_queue) :
          /\ procs[p].state = "Terminated"
          /\ procs[p].finish_time >= 1
          /\ procs[p].finish_time <= 1000
          /\ procs[p].turnaround_time
                = procs[p].finish_time - procs[p].arrival_time
          /\ procs[p].wait_time >= 0

\* C20: the run loop always stops: it ends exactly when the number of
\* terminated processes equals the number of loaded processes or when the
\* clock reaches the bound of 1000 ticks, whichever comes first; no tick is
\* run with clock >= 1000, and on a bound stop the processes already
\* terminated keep their computed statistics.
C20_LoopStops ==
    /\ [](C20_NoTickAtBound /\ C20_EndsExactlyThen /\ C20_PartialResults)
    /\ [][C20_LoopTest]_vars
    /\ <>[](pc = "done")

\* the loop stopped at the bound with one process terminated and one not
C20_Witness ==
    /\ pc = "done"
    /\ clock = 1000
    /\ Len(terminated_queue) = 1
    /\ total_processes = 2
    /\ procs[terminated_queue[1]].turnaround_time > 0
    /\ Len(suspended_queue) = 1

\* ------------------------------------------- no partitions or degree zero
C21_NoAdmission == Len(partitions) = 0 \/ degree_of_multiprogramming = 0

\* C21: with an empty partition list or a degree of multiprogramming of 0 no
\* process is ever admitted: every arrived process is in suspended and stays
\* there, ready stays empty, no process is dispatched or terminated, and the
\* ticks follow one another (the loop ends only at the safety bound).
C21_NothingAdmitted ==
    C21_NoAdmission =>
       /\ ready_queue = <<>>
       /\ current_process = None
       /\ terminated_queue = <<>>
       /\ \A k \in Parts : partitions[k].process = None
       /\ \A p \in Procs :
             IF p \in Range(all_processes)
             THEN /\ procs[p].state = "New"
                  /\ (\/ procs[p].arrival_time > clock
                      \/ procs[p].arrival_time = clock /\ pc = "arrive")
             ELSE /\ p \in Range(suspended_queue)
                  /\ procs[p].state = "Suspended"
                  /\ procs[p].arrival_time <= clock
             /\ procs[p].partition = None
             /\ procs[p].first_execution_time = Unset
             /\ procs[p].remaining_time = procs[p].burst_time
             /\ procs[p].finish_time = 0
       /\ pc = "done" => clock = 1000

\* degree 0 with a partition the suspended process would fit, ticks later
C21_Witness ==
    /\ degree_of_multiprogramming = 0
    /\ clock >= 2
    /\ \E p \in Range(suspended_queue) :
          /\ procs[p].wait_time >= 2
          /\ \E k \in Parts : partitions[k].size >= procs[p].size
    /\ Len(suspended_queue) >= 2

\* ------------------------------------- select_next_process called directly
SelectProcs == 3

SelectRemaining == 0..2

\* a ready queue: some of the processes, each once, in any order
InitSelect ==
    /\ \E n \in 1..SelectProcs :
         \E remaining \in [1..n -> SelectRemaining] :
            /\ procs = [i \in 1..n |->
                          [Process(i, 1, 0, 2) EXCEPT
                              !.state = "Ready",
                              !.remaining_time = remaining[i]]]
            /\ total_processes = n
            /\ \E rq \in SeqsUpTo(1..n, 0, n) :
                  /\ \A i, j \in DOMAIN rq : i # j => rq[i] # rq[j]
                  /\ ready_queue = rq
    /\ partitions = <<>>
    /\ all_processes = <<>>
    /\ degree_of_multiprogramming = 0
    /\ suspended_queue = <<>>
    /\ terminated_queue = <<>>
    /\ current_process = None
    /\ clock = 0
    /\ pc = "call"
    /\ ret = "None"

SelectCall ==
    /\ pc = "call"
    /\ ret' = select_next_process(procs, ready_queue)
    /\ pc' = "returned"
    /\ UNCHANGED <<procs, partitions, all_processes, ready_queue,
                   suspended_queue, terminated_queue, current_process, clock,
                   degree_of_multiprogramming, total_processes>>

NextSelect == SelectCall

SpecSelect == InitSelect /\ [][NextSelect]_vars

\* the returned process: none for the empty queue, else the first in queue
\* order among those with minimum remaining_time
C22_Selected ==
    pc = "returned" =>
       IF ready_queue = <<>> THEN ret = None
       ELSE \E i \in 1..Len(ready_queue) :
               /\ ret = ready_queue[i]
               /\ \A h \in 1..Len(ready_queue) :
                     procs[ret].remaining_time
                        <= procs[ready_queue[h]].remaining_time
               /\ \A h \in 1..(i - 1) :
                     procs[ready_queue[h]].remaining_time
                        > procs[ret].remaining_time

\* the call changes neither the queue nor any process
C22_NothingModified ==
    (pc = "call" /\ pc' = "returned") =>
       /\ ready_queue' = ready_queue
       /\ procs' = procs
       /\ current_process' = current_process

\* C22: select_next_process(ready) returns none for an empty queue and
\* otherwise the first process in queue order among those with minimum
\* remaining_time; it modifies neither the queue nor any process.
C22_SelectNext == []C22_Selected /\ [][C22_NothingModified]_vars

\* two processes tie on the minimum behind a longer head; the first is taken
C22_Witness ==
    /\ pc = "returned"
    /\ Len(ready_queue) = 3
    /\ ret = ready_queue[2]
    /\ procs[ready_queue[3]].remaining_time = procs[ret].remaining_time
    /\ procs[ready_queue[1]].remaining_time > procs[ret].remaining_time

\* ----------------------------------------------------- the finishing tick
\* C23: when a process executes its last time unit in the tick with clock
\* value c, its finish_time is set to c + 1, its partition is freed in that
\* tick, it is appended to terminated, and the scheduler has no current
\* process at the end of that tick.
C23_FinishingTick ==
    [][(/\ pc = "execute" /\ pc' = "advance"
        /\ current_process # None
        /\ procs[current_process].remaining_time = 1) =>
          LET p == current_process
              k == procs[p].partition
          IN  /\ procs'[p].remaining_time = 0
              /\ procs'[p].state = "Terminated"
              /\ procs'[p].finish_time = clock + 1
              /\ procs'[p].partition = None
              /\ k \in Parts
              /\ partitions[k].process = p
              /\ partitions'[k].process = None
              /\ partitions'[k].internal_fragmentation = 0
              /\ \A j \in Parts : partitions'[j].process # p
              /\ terminated_queue' = Append(terminated_queue, p)
              /\ current_process' = None
              /\ clock' = clock]_vars

\* a process of burst 2 has just executed its last unit, not in the tick of
\* its arrival
C23_Witness ==
    /\ pc = "advance"
    /\ current_process = None
    /\ terminated_queue # <<>>
    /\ LET p == terminated_queue[Len(terminated_queue)]
       IN  /\ procs[p].finish_time = clock + 1
           /\ procs[p].burst_time = 2
           /\ procs[p].remaining_time = 0
           /\ ready_queue # <<>>

\* ------------------------------------------------------ terminated is final
\* C24: once a process reaches Terminated it is frozen: in every later step
\* it stays in terminated, its state, remaining_time, finish_time,
\* turnaround_time, wait_time and first_execution_time never change, and it
\* never holds a partition again.
C24_TerminatedFrozen ==
    /\ [](\A p \in Procs :
             procs[p].state = "Terminated" =>
                /\ p \in Range(terminated_queue)
                /\ procs[p].partition = None
                /\ \A k \in Parts : partitions[k].process # p)
    /\ [][\A p \in Procs :
             procs[p].state = "Terminated" =>
                /\ procs'[p].state = "Terminated"
                /\ procs'[p].remaining_time = procs[p].remaining_time
                /\ procs'[p].finish_time = procs[p].finish_time
                /\ procs'[p].turnaround_time = procs[p].turnaround_time
                /\ procs'[p].wait_time = procs[p].wait_time
                /\ procs'[p].first_execution_time
                      = procs[p].first_execution_time
                /\ procs'[p].partition = None
                /\ p \in Range(terminated_queue')]_vars

\* ticks after a process terminated, another one has been admitted from
\* suspended into the partition it left and has terminated after it
C24_Witness ==
    \E p, q \in Range(terminated_queue) :
       /\ procs[p].finish_time + 2 <= clock
       /\ procs[q].finish_time > procs[p].finish_time
       /\ procs[q].first_execution_time >= procs[p].finish_time
       /\ procs[q].wait_time > 0
       /\ Len(partitions) = 1

\* ------------------------------------------------ the frame of allocate
C25_FreeFit(p) ==
    \E k \in Parts :
       partitions[k].process = None /\ partitions[k].size >= procs[p].size

\* C25: allocate returning false (no free partition fits) leaves every
\* partition's occupant and fragmentation, the process's state and partition
\* reference and every other process unchanged; allocate, successful or not,
\* never modifies the queues, the clock or the scheduler's current process.
C25_AllocateFrame ==
    [][\A p \in Procs :
          AllocateCall(p) =>
             /\ ret' = "False" <=> ~C25_FreeFit(p)
             /\ ret' = "False" =>
                   /\ partitions' = partitions
                   /\ procs' = procs
             /\ ready_queue' = ready_queue
             /\ suspended_queue' = suspended_queue
             /\ terminated_queue' = terminated_queue
             /\ all_processes' = all_processes
             /\ clock' = clock
             /\ current_process' = current_process]_vars

\* allocate has failed for a process that an occupied partition would fit,
\* while a free partition is too small for it
C25_Witness ==
    /\ ret = "False"
    /\ \E p \in Procs :
          /\ procs[p].partition = None
          /\ procs[p].state = "New"
          /\ ~C25_FreeFit(p)
          /\ \E k \in Parts :
                partitions[k].process \notin {None, p}
                   /\ partitions[k].size >= procs[p].size
          /\ \E k \in Parts :
                partitions[k].process = None
                   /\ partitions[k].size < procs[p].size

\* ------------------------------------- wait counter and first execution
PreemptionArrivals == 0..3

PreemptionBursts == 0..4

PreemptionClock == 16

\* main(): three processes of size 1 with bursts long enough to be preempted
\* more than once, partitions of size 1, degree >= 1
InitPreemptions ==
    /\ \E arrival \in [1..3 -> PreemptionArrivals],
          burst \in [1..3 -> PreemptionBursts] :
          /\ SortedByArrival(arrival)
          /\ procs = [i \in 1..3 |-> Process(i, 1, arrival[i], burst[i])]
    /\ all_processes = <<1, 2, 3>>
    /\ total_processes = 3
    /\ \E n \in 1..MaxParts : partitions = [k \in 1..n |-> Partition(k, 1)]
    /\ degree_of_multiprogramming \in 1..MaxDegree
    /\ ready_queue = <<>>
    /\ suspended_queue = <<>>
    /\ terminated_queue = <<>>
    /\ current_process = None
    /\ clock = 0
    /\ pc = "arrive"
    /\ ret = "None"

ArrivePreemptions == Arrive(PreemptionClock)

NextPreemptions ==
    \/ ArrivePreemptions
    \/ Stop
    \/ TryLoadSuspended
    \/ ScheduleProcess
    \/ UpdateWaitTimes
    \/ ExecuteTick
    \/ AdvanceClock

SpecPreemptions == InitPreemptions /\ [][NextPreemptions]_vars

C26_TickBoundary == pc \in {"arrive", "done"}

\* C26: the per-tick wait counter and the first-execution formula agree: at
\* every tick boundary every process dispatched at least once has wait_time
\* = first_execution_time - arrival_time, so that the overwrite at
\* termination never changes the value, whatever the preemptions and
\* suspensions before.
C26_WaitAgrees ==
    /\ [](C26_TickBoundary =>
            \A p \in Procs :
               procs[p].first_execution_time # Unset =>
                  procs[p].wait_time
                     = procs[p].first_execution_time - procs[p].arrival_time)
    /\ [][\A p \in Procs :
             (procs[p].state # "Terminated"
                 /\ procs'[p].state = "Terminated") =>
                procs'[p].wait_time = procs[p].wait_time]_vars

\* a process that was dispatched, was preempted by a newcomer, resumed, was
\* preempted by another newcomer and resumed has terminated
C26_Witness ==
    /\ C26_TickBoundary
    /\ \E p, q, r \in Range(terminated_queue) :
          /\ procs[p].first_execution_time < procs[q].first_execution_time
          /\ procs[q].arrival_time = procs[q].first_execution_time
          /\ procs[q].finish_time < procs[r].first_execution_time
          /\ procs[r].arrival_time = procs[r].first_execution_time
          /\ procs[r].finish_time < procs[p].finish_time
          /\ procs[p].wait_time
                = procs[p].first_execution_time - procs[p].arrival_time

\* ------------------------------------------------ suspended re-admission
\* positions of suspended whose process leaves suspended in this step
C27_Admitted ==
    {i \in 1..Len(suspended_queue) :
        suspended_queue[i] \notin Range(suspended_queue')}

\* resident count when the scan reaches position i
C27_CountAt(i) ==
    Len(ready_queue) + (IF current_process # None THEN 1 ELSE 0)
       + Cardinality({j \in C27_Admitted : j < i})

\* partitions given to the processes admitted before position i
C27_TakenBefore(i) ==
    {procs'[suspended_queue[j]].partition : j \in {h \in C27_Admitted : h < i}}

\* a partition free when the scan reaches position i that fits its process
C27_FreeFitAt(i, k) ==
    /\ partitions[k].process = None
    /\ k \notin C27_TakenBefore(i)
    /\ partitions[k].size >= procs[suspended_queue[i]].size

C27_Leaves(q) == q \notin Range(suspended_queue')

C27_Stays(q) == q \in Range(suspended_queue')

\* C27: suspended re-admission scans suspended in suspension order and stops
\* as soon as the resident count reaches the degree; a suspended process that
\* fits no free partition is skipped without blocking later ones; each
\* admitted process is removed from suspended and appended to ready in scan
\* order, and the processes left in suspended keep their relative order.
C27_Readmission ==
    [][(pc = "suspended" /\ pc' = "schedule") =>
         /\ ready_queue'
               = ready_queue \o SelectSeq(suspended_queue, C27_Leaves)
         /\ suspended_queue' = SelectSeq(suspended_queue, C27_Stays)
         /\ \A i \in 1..Len(suspended_queue) :
               LET q == suspended_queue[i]
               IN  IF i \in C27_Admitted
                   THEN /\ C27_CountAt(i) < degree_of_multiprogramming
                        /\ procs'[q].state = "Ready"
                        /\ procs'[q].partition \in Parts
                        /\ C27_FreeFitAt(i, procs'[q].partition)
                        /\ partitions'[procs'[q].partition].process = q
                   ELSE /\ \/ C27_CountAt(i) >= degree_of_multiprogramming
                           \/ \A k \in Parts : ~C27_FreeFitAt(i, k)
                        /\ procs'[q] = procs[q]]_vars

\* the only partition was freed at the end of the last tick; the scan has
\* passed over a suspended process too large for it and admitted a later one
C27_Witness ==
    /\ pc = "schedule"
    /\ Len(partitions) = 1
    /\ \E t \in Range(terminated_queue) : procs[t].finish_time = clock
    /\ \E p \in Range(suspended_queue), q \in Range(ready_queue) :
          /\ p < q
          /\ procs[p].size > partitions[1].size
          /\ procs[q].arrival_time < clock
          /\ partitions[1].process = q

\* ----------------------------------------------------------- the arrivals
C28_ArrivesNow(p) == procs[p].arrival_time = clock

C28_ArrivesLater(p) == procs[p].arrival_time > clock

C28_InReadyAfter(p) == p \in Range(ready_queue')

C28_InSuspendedAfter(p) == p \in Range(suspended_queue')

\* the arriving list holds, in input order, the processes that arrive after
\* the tick being run (at a tick boundary: after the tick just run)
C28_ArrivingList ==
    /\ Range(all_processes)
          = {p \in Procs :
                \/ procs[p].arrival_time > clock
                \/ procs[p].arrival_time = clock /\ pc = "arrive"}
    /\ \A i, j \in 1..Len(all_processes) :
          i < j => all_processes[i] < all_processes[j]

\* before the scheduling step of tick c the processes with arrival_time = c
\* are in ready or suspended
C28_PlacedBeforeScheduling ==
    pc \in {"suspended", "schedule"} =>
       \A p \in Procs :
          procs[p].arrival_time = clock =>
             /\ p \in Range(ready_queue) \cup Range(suspended_queue)
             /\ ~(p \in Range(ready_queue) /\ p \in Range(suspended_queue))

\* the arrivals step takes the processes with arrival_time = clock out of
\* the arriving list and appends them, in input order, to ready or to
\* suspended; no process already suspended is re-admitted by it
C28_ArrivalStep ==
    (pc = "arrive" /\ pc' = "suspended") =>
       LET arrived == SelectSeq(all_processes, C28_ArrivesNow)
       IN  /\ all_processes' = SelectSeq(all_processes, C28_ArrivesLater)
           /\ ready_queue' = ready_queue \o SelectSeq(arrived, C28_InReadyAfter)
           /\ suspended_queue'
                 = suspended_queue \o SelectSeq(arrived, C28_InSuspendedAfter)
           /\ \A q \in Range(suspended_queue) : procs'[q] = procs[q]

\* C28: in the tick with clock value c every process with arrival_time = c
\* leaves the arriving list and is in ready or suspended before that tick's
\* scheduling step, processed in input order and before any suspended process
\* is re-admitted; at every tick boundary the arriving list holds exactly the
\* loaded processes whose arrival_time is greater than the clock of the tick
\* just run.
C28_Arrivals ==
    /\ [](C28_ArrivingList /\ C28_PlacedBeforeScheduling)
    /\ [][C28_ArrivalStep]_vars

\* the process arriving in this tick has taken the only partition, freed at
\* the end of the last tick, ahead of an older suspended process that fits it
C28_Witness ==
    /\ pc = "suspended"
    /\ Len(partitions) = 1
    /\ \E q \in Range(ready_queue), p \in Range(suspended_queue) :
          /\ procs[q].arrival_time = clock
          /\ partitions[1].process = q
          /\ procs[p].arrival_time < clock
          /\ procs[p].size <= partitions[1].size
    /\ all_processes = <<>>

\* ------------------------------------------- the newcomer that preempts
\* q arrived in this tick, is in memory and has strictly less remaining time
\* than the running process and than every other ready process
C29_ShortestNewcomer(q) ==
    /\ q \in Range(ready_queue)
    /\ procs[q].arrival_time = clock
    /\ procs[q].partition # None
    /\ current_process # None =>
          procs[q].remaining_time < procs[current_process].remaining_time
    /\ \A r \in Range(ready_queue) \ {q} :
          procs[q].remaining_time < procs[r].remaining_time

\* the scheduling step of tick t dispatches the newcomer and puts the
\* running process, its time unit not consumed, back in ready
C29_ScheduleStep ==
    \A q \in Procs :
       (pc = "schedule" /\ pc' = "wait" /\ C29_ShortestNewcomer(q)) =>
          /\ current_process' = q
          /\ q \notin Range(ready_queue')
          /\ procs'[q].state = "Executing"
          /\ procs'[q].first_execution_time = clock
          /\ current_process # None =>
                /\ current_process \in Range(ready_queue')
                /\ procs'[current_process].state = "Ready"
                /\ procs'[current_process].remaining_time
                      = procs[current_process].remaining_time
                /\ procs'[current_process].partition
                      = procs[current_process].partition

\* the process dispatched in the tick of its arrival accrues no wait unit
\* and consumes the time unit of that tick
C29_RestOfTick ==
    \A q \in Procs :
       (/\ current_process = q
        /\ procs[q].arrival_time = clock
        /\ pc \in {"wait", "execute"}) =>
          /\ procs[q].first_execution_time = clock
          /\ procs[q].wait_time = 0
          /\ procs'[q].wait_time = 0
          /\ current_process' = IF pc = "wait" \/ procs[q].remaining_time > 1
                                THEN q ELSE None
          /\ pc = "execute" =>
                procs'[q].remaining_time = procs[q].remaining_time - 1

\* C29: a process that arrives at tick t, is admitted to memory in that tick
\* and has strictly smaller remaining_time than the running process and than
\* every other ready process executes during tick t itself: the running
\* process is preempted before tick t's time unit is consumed, and the
\* newcomer gets first_execution_time = t and wait_time 0.
C29_NewcomerPreempts == [][C29_ScheduleStep /\ C29_RestOfTick]_vars

\* the newcomer is executing in the tick of its arrival; the process that ran
\* in the last tick is back in ready
C29_Witness ==
    /\ pc = "execute"
    /\ terminated_queue = <<>>
    /\ suspended_queue = <<>>
    /\ \E q, r \in Procs :
          /\ current_process = q
          /\ procs[q].arrival_time = clock
          /\ procs[q].first_execution_time = clock
          /\ procs[q].wait_time = 0
          /\ ready_queue = <<r>>
          /\ procs[r].state = "Ready"
          /\ procs[r].first_execution_time < clock
          /\ procs[r].first_execution_time # Unset
          /\ procs[r].remaining_time > procs[q].remaining_time
          /\ procs[q].remaining_time > 0

\* --------------------------------------------- residency and partitions
C30_HoldsPartition(p) ==
    \/ procs[p].partition # None
    \/ \E k \in Parts : partitions[k].process = p

C30_InMemory(p) == p \in Range(ready_queue) \/ current_process = p

\* C30: at every tick boundary a process holds a partition if and only if it
\* is in ready or is the scheduler's current process; hence the number of
\* occupied partitions equals len(ready) + (1 if executing), and processes
\* in arriving, suspended or terminated hold no partition.
C30_ResidentIffPartition ==
    pc \in {"arrive", "done"} =>
       /\ \A p \in Procs : C30_HoldsPartition(p) <=> C30_InMemory(p)
       /\ Cardinality({k \in Parts : partitions[k].process # None})
             = Len(ready_queue) + (IF current_process # None THEN 1 ELSE 0)
       /\ \A p \in Range(all_processes) \cup Range(suspended_queue)
                      \cup Range(terminated_queue) :
             /\ procs[p].partition = None
             /\ \A k \in Parts : partitions[k].process # p

\* a tick boundary with one process executing, one in ready, both partitions
\* occupied, and one process terminated
C30_Witness ==
    /\ pc = "arrive"
    /\ current_process # None
    /\ Len(ready_queue) = 1
    /\ Len(terminated_queue) = 1
    /\ Len(partitions) = 2
    /\ \A k \in Parts : partitions[k].process # None
    /\ procs[terminated_queue[1]].burst_time > 0

\* ------------------------------------------------------ no swapping out
C31_Resident(p) == p \in Range(ready_queue) \/ current_process = p

\* a resident process stays resident, in its partition, until it terminates
C31_StaysInMemory ==
    \A p \in Procs :
       C31_Resident(p) =>
          /\ p \notin Range(suspended_queue')
          /\ procs'[p].state \in {"Ready", "Executing", "Terminated"}
          /\ procs'[p].state # "Terminated" =>
                /\ p \in Range(ready_queue') \/ current_process' = p
                /\ procs[p].partition \in Parts
                /\ procs'[p].partition = procs[p].partition
                /\ partitions'[procs[p].partition].process = p
                /\ partitions[procs[p].partition].process = p

\* the steps that allocate change no process but the ones they are asked to
\* place: the arriving ones, the suspended ones
C31_AllocateArgumentOnly ==
    /\ (pc = "arrive" /\ pc' = "suspended") =>
          \A p \in Procs :
             ~(p \in Range(all_processes)
                 /\ procs[p].arrival_time = clock) =>
                procs'[p] = procs[p]
    /\ (pc = "suspended" /\ pc' = "schedule") =>
          \A p \in Procs :
             p \notin Range(suspended_queue) => procs'[p] = procs[p]

\* C31: within the engine no resident process is ever swapped out: once a
\* process has entered ready it never returns to suspended and never gets
\* state Suspended, it keeps the same partition through every preemption
\* until it terminates, and allocate never changes the state or partition of
\* any process other than its argument.
C31_NoSwapOut == [][C31_StaysInMemory /\ C31_AllocateArgumentOnly]_vars

\* a preempted process sits in ready in a partition larger than it needs,
\* while a suspended process that this partition would fit finds no free one
C31_Witness ==
    \E r \in Range(ready_queue), s \in Range(suspended_queue) :
       /\ procs[r].state = "Ready"
       /\ procs[r].first_execution_time # Unset
       /\ procs[r].remaining_time > 0
       /\ procs[r].partition \in Parts
       /\ partitions[procs[r].partition].size >= procs[s].size
       /\ current_process \notin {None, r}
       /\ \A k \in Parts :
             partitions[k].process = None =>
                partitions[k].size < procs[s].size

\* ------------------------------------------------ every process terminates
\* main(): degree >= 1, positive bursts, every process fits some partition
InitAllFit ==
    /\ Init
    /\ degree_of_multiprogramming >= 1
    /\ \A p \in Procs :
          /\ procs[p].burst_time > 0
          /\ procs[p].arrival_time >= 0
          /\ \E k \in Parts : partitions[k].size >= procs[p].size

SpecAllFit ==
    /\ InitAllFit
    /\ [][Next]_vars
    /\ ([]<>~CanStep(MaxClock) \/ []<><<Next>>_vars)

RECURSIVE C32_SumBurst(_)
C32_SumBurst(n) ==
    IF n = 0 THEN 0 ELSE C32_SumBurst(n - 1) + procs[n].burst_time

\* max(arrival_time) + sum(burst_time); the input is sorted by arrival time
C32_Horizon == procs[Len(procs)].arrival_time + C32_SumBurst(Len(procs))

C32_Premise ==
    /\ degree_of_multiprogramming >= 1
    /\ \A p \in Procs :
          /\ procs[p].burst_time > 0
          /\ procs[p].arrival_time >= 0
          /\ \E k \in Parts : partitions[k].size >= procs[p].size
    /\ C32_Horizon <= 1000

C32_AllTerminated == \A p \in Procs : procs[p].state = "Terminated"

\* the clock stays within the horizon and the loop ends with every process
\* terminated
C32_WithinHorizon ==
    C32_Premise =>
       /\ clock <= C32_Horizon
       /\ pc = "done" => C32_AllTerminated

\* in a tick in which some arrived process is not terminated exactly one
\* process executes one time unit
C32_OneUnitPerTick ==
    (/\ C32_Premise
     /\ pc = "execute" /\ pc' = "advance"
     /\ \E p \in Procs :
           procs[p].arrival_time <= clock /\ procs[p].state # "Terminated") =>
        /\ current_process # None
        /\ \A p \in Procs :
              procs'[p].remaining_time
                 = IF p = current_process THEN procs[p].remaining_time - 1
                   ELSE procs[p].remaining_time

\* C32: if degree >= 1, every process has positive burst, arrival_time >= 0
\* and a size that fits at least one partition, and max(arrival_time) +
\* sum(burst_time) <= 1000, then every loaded process eventually reaches
\* Terminated and the run ends with clock <= max(arrival_time) +
\* sum(burst_time): in every tick in which some arrived process is not
\* terminated, exactly one process executes one time unit.
C32_AllTerminate ==
    /\ []C32_WithinHorizon
    /\ [][C32_OneUnitPerTick]_vars
    /\ <>[](pc = "done" /\ C32_AllTerminated)

\* three processes, one of them kept waiting in suspended, have all
\* terminated and the loop has ended with the clock at the horizon
C32_Witness ==
    /\ pc = "done"
    /\ Len(procs) = 3
    /\ C32_AllTerminated
    /\ clock = C32_Horizon
    /\ \E p \in Procs :
          procs[p].wait_time > 1 /\ procs[p].size > procs[1].size

\* ------------------------------------------ load_processes after a run
\* load_processes(processes): the queues and the clock are reset; the
\* scheduler, the partitions and the process objects are not touched
load_processes(processes) ==
    [all |-> processes, ready |-> <<>>, susp |-> <<>>, terminated |-> <<>>,
     clock |-> 0]

ReloadCounts == 1..2

ReloadArrivals == {0, max_ticks - 1}

ReloadBursts == 1..2

\* main(): processes of size 1 that arrive at tick 0 or in the last tick
\* before the safety bound, partitions of size 1, degree >= 1
InitReload ==
    /\ \E n \in ReloadCounts :
         \E arrival \in [1..n -> ReloadArrivals],
            burst \in [1..n -> ReloadBursts] :
            /\ SortedByArrival(arrival)
            /\ procs = [i \in 1..n |-> Process(i, 1, arrival[i], burst[i])]
            /\ LET L == load_processes([i \in 1..n |-> i])
               IN  /\ all_processes = L.all
                   /\ ready_queue = L.ready
                   /\ suspended_queue = L.susp
                   /\ terminated_queue = L.terminated
                   /\ clock = L.clock
            /\ total_processes = n
    /\ \E n \in 1..MaxParts : partitions = [k \in 1..n |-> Partition(k, 1)]
    /\ degree_of_multiprogramming \in 1..MaxDegree
    /\ current_process = None
    /\ pc = "arrive"
    /\ ret = "None"

\* load_processes is called again, with the same list, on the simulator
\* whose run has ended
LoadProcesses ==
    /\ pc = "done"
    /\ LET L == load_processes([i \in 1..Len(procs) |-> i])
       IN  /\ all_processes' = L.all
           /\ ready_queue' = L.ready
           /\ suspended_queue' = L.susp
           /\ terminated_queue' = L.terminated
           /\ clock' = L.clock
    /\ pc' = "loaded"
    /\ UNCHANGED <<procs, partitions, current_process,
                   degree_of_multiprogramming, total_processes, ret>>

NextReload ==
    \/ ArriveFullRun
    \/ Stop
    \/ TryLoadSuspended
    \/ ScheduleProcess
    \/ UpdateWaitTimes
    \/ ExecuteTick
    \/ AdvanceClock
    \/ LoadProcesses

SpecReload == InitReload /\ [][NextReload]_vars

\* C33: load_processes gives the engine a defined initial state with no
\* carry-over from an earlier run on the same simulator: after it clock = 0,
\* ready, suspended and terminated are empty, no process is the scheduler's
\* current process and every partition is free.
C33_LoadResets ==
    pc = "loaded" =>
       /\ clock = 0
       /\ ready_queue = <<>>
       /\ suspended_queue = <<>>
       /\ terminated_queue = <<>>
       /\ current_process = None
       /\ \A k \in Parts : partitions[k].process = None

====
